---- MODULE Spec2Model ----
(***************************************************************************)
(* esplora_auth_proxy (src/src/main.rs): a reverse proxy that injects an   *)
(* OAuth2 client-credentials bearer token into every forwarded request.    *)
(*                                                                         *)
(* The model has one process per task of the program: the background       *)
(* warm-up loop spawned in main ("bg") and the proxy handlers that run     *)
(* concurrently (Handlers).  Shared state is AppState.token (the cached    *)
(* token behind the RwLock) and AppState.refresh_lock (a tokio Mutex,      *)
(* which hands the lock to waiters in FIFO order).  Time is the monotonic  *)
(* clock read by Instant::now(), in whole seconds.                         *)
(*                                                                         *)
(* Strings are sequences of bytes, so that to_ascii_lowercase,             *)
(* format!("Bearer {}") and HeaderValue::from_str are computed on the      *)
(* bytes as the code computes them.  u64 / i64 seconds are four 16-bit     *)
(* limbs (most significant first), so that max, saturating_sub and the     *)
(* checked Instant + Duration keep their 64-bit width.                     *)
(*                                                                         *)
(* A panic (the overflowing Instant + Duration of line 77, the unwrap of   *)
(* line 166) unwinds the task: its guards are dropped and the task ends.   *)
(* The request's headers are an input that proxy reads first at line 158,  *)
(* so the model draws them there; method, URL and the bytes of the         *)
(* request body pass through unchanged and are left out.                   *)
(*                                                                         *)
(* Three specifications share Init and the actions.  Spec is the program   *)
(* whose requests run to their end.  FairSpec is Spec under a scheduler    *)
(* that polls every task that can go on inside bearer().  SpecCancel adds  *)
(* the server dropping a handler at any of its await points, as it does    *)
(* when the caller goes away.                                              *)
(***************************************************************************)
EXTENDS Integers, Sequences, FiniteSets, TLC

(***************************************************************************)
(* Bounds of the model                                                     *)
(***************************************************************************)
\* the clock stops advancing at MaxTime seconds
MaxTime == 240
\* seconds added to the clock by one Tick
TickStep == 120

(***************************************************************************)
(* Program constants                                                       *)
(***************************************************************************)
\* leeway: Duration::from_secs(20)
Leeway == 20
\* tr.expires_in.max(60)
MinTtl == 60
\* ttl.saturating_sub(10)
Margin == 10
\* tokio::time::sleep(Duration::from_secs(240))
RefreshInterval == 240
\* one limb of a 64-bit integer holds 16 bits
LimbBase == 65536

(***************************************************************************)
(* 64-bit integers as four 16-bit limbs, most significant limb first       *)
(***************************************************************************)
\* a small natural number (below LimbBase) as a 64-bit value
W(n) == <<0, 0, 0, n>>

\* u64::MAX
U64Max == <<65535, 65535, 65535, 65535>>

\* i64::MAX, the largest tv_sec an Instant can hold
I64Max == <<32767, 65535, 65535, 65535>>

\* a < b on 64-bit values
WLess(a, b) ==
    \E i \in 1..4 : /\ a[i] < b[i]
                    /\ \A j \in 1..(i-1) : a[j] = b[j]

\* u64::max
WMax(a, b) == IF WLess(a, b) THEN b ELSE a

\* a + b with the carry out of bit 63
WAdd(a, b) ==
    LET s4 == a[4] + b[4]
        s3 == a[3] + b[3] + (s4 \div LimbBase)
        s2 == a[2] + b[2] + (s3 \div LimbBase)
        s1 == a[1] + b[1] + (s2 \div LimbBase)
    IN  [v     |-> <<s1 % LimbBase, s2 % LimbBase, s3 % LimbBase, s4 % LimbBase>>,
         carry |-> s1 \div LimbBase]

\* a - b for a >= b
WSub(a, b) ==
    LET d4 == a[4] - b[4]
        w4 == IF d4 < 0 THEN 1 ELSE 0
        d3 == a[3] - b[3] - w4
        w3 == IF d3 < 0 THEN 1 ELSE 0
        d2 == a[2] - b[2] - w3
        w2 == IF d2 < 0 THEN 1 ELSE 0
        d1 == a[1] - b[1] - w2
    IN  <<d1, d2 + w2 * LimbBase, d3 + w3 * LimbBase, d4 + w4 * LimbBase>>

\* u64::saturating_sub
SaturatingSub(a, b) == IF WLess(a, b) THEN W(0) ELSE WSub(a, b)

\* Instant::checked_add(Duration::from_secs(d)): tv_sec is an i64, the sum
\* must not exceed i64::MAX
InstantCheckedAdd(t, d) ==
    LET s == WAdd(t, d)
    IN  [some |-> s.carry = 0 /\ ~WLess(I64Max, s.v), v |-> s.v]

(***************************************************************************)
(* Strings as byte sequences                                               *)
(***************************************************************************)
\* u8::to_ascii_lowercase
LowerByte(b) == IF b >= 65 /\ b <= 90 THEN b + 32 ELSE b

\* str::to_ascii_lowercase
ToAsciiLowercase(s) == [i \in 1..Len(s) |-> LowerByte(s[i])]

\* format!("Bearer {}", access_token)
BearerPrefix == <<66,101,97,114,101,114,32>>
FormatBearer(access_token) == BearerPrefix \o access_token

\* HeaderValue::from_str succeeds iff every byte is a tab or a visible
\* character (32..=255 except 127)
HeaderValueValid(s) ==
    \A i \in 1..Len(s) : (s[i] >= 32 /\ s[i] # 127) \/ s[i] = 9

(***************************************************************************)
(* Header maps: a HeaderMap is the sequence of its <<name, value>> entries *)
(* in iteration order; a name with several values has several entries      *)
(***************************************************************************)
\* header names (HeaderName holds them in lower case)
H_connection == <<99,111,110,110,101,99,116,105,111,110>>
H_keep_alive == <<107,101,101,112,45,97,108,105,118,101>>
H_proxy_authenticate == <<112,114,111,120,121,45,97,117,116,104,101,110,116,105,99,97,116,101>>
H_proxy_authorization == <<112,114,111,120,121,45,97,117,116,104,111,114,105,122,97,116,105,111,110>>
H_te == <<116,101>>
H_trailer == <<116,114,97,105,108,101,114>>
H_transfer_encoding == <<116,114,97,110,115,102,101,114,45,101,110,99,111,100,105,110,103>>
H_upgrade == <<117,112,103,114,97,100,101>>
H_authorization == <<97,117,116,104,111,114,105,122,97,116,105,111,110>>
H_host == <<104,111,115,116>>
H_x_custom == <<120,45,99,117,115,116,111,109>>
H_accept == <<97,99,99,101,112,116>>
H_set_cookie == <<115,101,116,45,99,111,111,107,105,101>>
H_content_type == <<99,111,110,116,101,110,116,45,116,121,112,101>>

\* header values: "1", "2", "Bearer xyz", "client.example", "keep-alive"
V_1 == <<49>>
V_2 == <<50>>
V_bearer_xyz == <<66,101,97,114,101,114,32,120,121,122>>
V_client_example == <<99,108,105,101,110,116,46,101,120,97,109,112,108,101>>
V_keep_alive == <<107,101,101,112,45,97,108,105,118,101>>

\* lines 160-163: the names matches! skips on the request side
ReqExcluded ==
    {H_connection, H_keep_alive, H_proxy_authenticate, H_proxy_authorization,
     H_te, H_trailer, H_transfer_encoding, H_upgrade, H_authorization, H_host}

\* lines 181-184: the names matches! skips on the response side
RespExcluded ==
    {H_connection, H_keep_alive, H_proxy_authenticate, H_proxy_authorization,
     H_te, H_trailer, H_transfer_encoding, H_upgrade}

\* lines 158-165 and 179-186: the loop that appends every entry whose
\* lower-cased name is not excluded
RECURSIVE CopyHeaders(_, _)
CopyHeaders(headers, excluded) ==
    IF headers = <<>> THEN <<>>
    ELSE LET k == Head(headers)[1]
             v == Head(headers)[2]
             n == ToAsciiLowercase(k)
         IN  IF n \in excluded
             THEN CopyHeaders(Tail(headers), excluded)
             ELSE <<<<k, v>>>> \o CopyHeaders(Tail(headers), excluded)

\* HeaderMap::insert: the entry replaces every entry of that name
HeaderMapInsert(m, name, value) ==
    LET Other(e) == e[1] # name
    IN  SelectSeq(m, Other) \o <<<<name, value>>>>

\* OutHeaders that forwards the caller's host header
OutHeaders_forwardHost(headers, bearer) ==
    HeaderMapInsert(CopyHeaders(headers, ReqExcluded \ {H_host}), H_authorization, bearer)

\* lines 157-166: the outbound header map
OutHeaders(headers, bearer) ==
    HeaderMapInsert(CopyHeaders(headers, ReqExcluded), H_authorization, bearer)

\* RespHeaders that filters the response with the request's list
RespHeaders_likeRequest(headers) == CopyHeaders(headers, ReqExcluded)

\* lines 178-186: the header map returned to the caller
RespHeaders(headers) == CopyHeaders(headers, RespExcluded)

\* StatusCode::from_u16: Some for 100..=999
StatusFromU16(n) == [some |-> n >= 100 /\ n < 1000, v |-> n]

\* lines 196-198: the bytes of the body that the diagnostic preview shows
Preview(body_bytes, dump_n) ==
    LET len == Len(body_bytes)
        take == IF dump_n < len THEN dump_n ELSE len
    IN  SubSeq(body_bytes, 1, take)

\* ReturnedBody that hands back the preview slice when a preview is taken
ReturnedBody_preview(body_bytes, dump_n) ==
    IF dump_n > 0 THEN Preview(body_bytes, dump_n) ELSE body_bytes

\* lines 194-215: the body handed back to the caller
ReturnedBody(body_bytes, dump_n) == body_bytes

(***************************************************************************)
(* Processes and inputs                                                    *)
(***************************************************************************)
\* the proxy handlers that can run at the same time
Handlers == {"h1", "h2"}

\* the warm-up task of main and the handlers: every caller of bearer()
Procs == {"bg"} \cup Handlers

\* TokenResp.access_token values the token endpoint returns: "A" and "A\n"
\* (a JSON string may hold any character)
AccessTokens == {<<65>>, <<65, 10>>}

\* TokenResp.expires_in values the token endpoint returns: 0, 5, 60, 150,
\* i64::MAX + 10 and u64::MAX
ExpiresIns == {W(0), W(5), W(60), W(150), <<32768, 0, 0, 9>>, U64Max}

\* what the POST to token_url can come back with: a transport error, a
\* non-success status, a success status whose body does not decode, or a
\* success status with a TokenResp
TokenResponses ==
    {[kind |-> k, access_token |-> <<>>, expires_in |-> W(0)] :
        k \in {"err", "status", "badjson"}}
    \cup
    {[kind |-> "ok", access_token |-> a, expires_in |-> e] :
        a \in AccessTokens, e \in ExpiresIns}

\* inbound header maps: empty; the example of the specification
\* (Authorization, Host, Connection, X-Custom); every excluded name next to
\* a two-valued accept and a two-valued authorization
ReqHeaderPool ==
    { <<>>,
      << <<H_authorization, V_bearer_xyz>>, <<H_host, V_client_example>>,
         <<H_connection, V_keep_alive>>, <<H_x_custom, V_1>> >>,
      << <<H_connection, V_1>>, <<H_keep_alive, V_1>>,
         <<H_proxy_authenticate, V_1>>, <<H_proxy_authorization, V_1>>,
         <<H_te, V_1>>, <<H_accept, V_1>>, <<H_accept, V_2>>,
         <<H_trailer, V_1>>, <<H_transfer_encoding, V_1>>,
         <<H_upgrade, V_1>>, <<H_host, V_1>>,
         <<H_authorization, V_bearer_xyz>>, <<H_authorization, V_1>> >> }

\* what the upstream can answer (reqwest's StatusCode is within 100..=999):
\* 200 with an end-to-end header and the body "800000"; 404 with no header
\* and an empty body; 503 with every hop-by-hop name next to authorization,
\* host, content-type and a two-valued set-cookie, and a body of two bytes
\* that are not UTF-8
UpResponses ==
    { [status |-> 200, headers |-> << <<H_content_type, V_1>> >>,
       body |-> <<56,48,48,48,48,48>>],
      [status |-> 404, headers |-> <<>>, body |-> <<>>],
      [status |-> 503,
       headers |->
         << <<H_connection, V_1>>, <<H_keep_alive, V_1>>,
            <<H_proxy_authenticate, V_1>>, <<H_proxy_authorization, V_1>>,
            <<H_te, V_1>>, <<H_content_type, V_2>>, <<H_trailer, V_1>>,
            <<H_transfer_encoding, V_1>>, <<H_upgrade, V_1>>,
            <<H_authorization, V_bearer_xyz>>, <<H_host, V_client_example>>,
            <<H_set_cookie, V_1>>, <<H_set_cookie, V_2>> >>,
       body |-> <<255, 0>>] }

\* values of DUMP_BODY_BYTES after parsing (0 when unset or unparsable)
DumpNs == {0, 1, 100}

\* no upstream request built
NoSent == [some |-> FALSE, headers |-> <<>>, bearer |-> <<>>, out |-> <<>>]

\* no upstream response held
NoUp == [some |-> FALSE, read |-> FALSE, status |-> 0, headers |-> <<>>, body |-> <<>>]

\* no response for the caller
NoResp == [status |-> 0, headers |-> <<>>, body |-> <<>>]

\* the handler's result: Ok((status, resp_headers, body_bytes)) or
\* Err((StatusCode, String)); the text of an error is not modelled
Response(status, headers, body) == [status |-> status, headers |-> headers, body |-> body]

\* Option<CachedToken>::None
None == [header_value |-> <<>>, valid_until |-> W(0), some |-> FALSE]

\* Some(CachedToken { header_value, valid_until })
CachedToken(hv, vu) == [header_value |-> hv, valid_until |-> vu, some |-> TRUE]

\* no bearer() result
NoRet == [ok |-> FALSE, val |-> <<>>, line |-> 0]

\* Result<String, String>::Ok(header_value), with the line that returns it
Ok(header_value, line) == [ok |-> TRUE, val |-> header_value, line |-> line]

\* Result<String, String>::Err(message): the message is known by the line
\* that builds it ("token json" 75, "token status" 99, "token http err" 103)
Err(line) == [ok |-> FALSE, val |-> <<>>, line |-> line]

VARIABLES
    now,         \* Instant::now(), seconds of the monotonic clock
    token,       \* AppState.token
    lockHolder,  \* the task holding AppState.refresh_lock, or "free"
    lockQueue,   \* the tasks waiting in refresh_lock.lock().await, in order
    pc,          \* each task's position
    ret,         \* the value each task's bearer() call returned
    pending,     \* the CachedToken a task built and is about to store
    wakeAt,      \* the deadline of the warm-up task's sleep
    sent,        \* the upstream request a handler has sent
    upresp,      \* the upstream response a handler has received
    resp,        \* the handler's status, resp_headers and body for the caller
    sawFail,     \* history: while this task waited for the lock in the
                 \* bearer() call it is in, a refresh failed on an empty cache
    aborted      \* history: the suspension point at which the handler's
                 \* last request was dropped, "no" once it serves a new one

bearerVars == <<token, lockHolder, lockQueue, pending>>

handlerVars == <<sent, upresp, resp>>

histVars == <<sawFail, aborted>>

vars == <<now, token, lockHolder, lockQueue, pc, ret, pending, wakeAt,
          sent, upresp, resp, sawFail, aborted>>

Init ==
    /\ now = 0
    /\ token = None
    /\ lockHolder = "free"
    /\ lockQueue = <<>>
    /\ pc = [p \in Procs |-> IF p = "bg" THEN "fast" ELSE "idle"]
    /\ ret = [p \in Procs |-> NoRet]
    /\ pending = [p \in Procs |-> None]
    /\ wakeAt = 0
    /\ sent = [p \in Handlers |-> NoSent]
    /\ upresp = [p \in Handlers |-> NoUp]
    /\ resp = [p \in Handlers |-> NoResp]
    /\ sawFail = [p \in Procs |-> FALSE]
    /\ aborted = [p \in Handlers |-> "no"]

(***************************************************************************)
(* AppState::bearer                                                        *)
(***************************************************************************)
\* Fresh without the leeway: a token counts until valid_until
Fresh_noLeeway(t) ==
    /\ t.some
    /\ WLess(W(now), t.valid_until)

\* Instant::now() + self.leeway < t.valid_until
Fresh(t) ==
    /\ t.some
    /\ WLess(InstantCheckedAdd(W(now), W(Leeway)).v, t.valid_until)

\* dropping _g: the refresh lock becomes free
Unlock == lockHolder' = "free"

\* the tasks waiting in refresh_lock.lock().await
Waiting == {lockQueue[i] : i \in 1..Len(lockQueue)}

\* history: a refresh of task p failed, which the waiters saw if the cache
\* is empty, and the bearer() call of p is over
HistFail(p) ==
    /\ sawFail' = [q \in Procs |->
                      IF q = p THEN FALSE
                      ELSE sawFail[q] \/ (q \in Waiting /\ ~token.some)]
    /\ UNCHANGED aborted

\* history: the bearer() call of p is over
HistReturn(p) ==
    /\ sawFail' = [sawFail EXCEPT ![p] = FALSE]
    /\ UNCHANGED aborted

\* history: handler p serves a new request
HistStart(p) ==
    /\ aborted' = [aborted EXCEPT ![p] = "no"]
    /\ UNCHANGED sawFail

\* FastHit that goes through the refresh lock: it waits until the lock is
\* free
FastHit_serialized(p) ==
    /\ pc[p] = "fast"
    /\ Fresh(token)
    /\ lockHolder = "free"
    /\ pc' = [pc EXCEPT ![p] = "ret"]
    /\ ret' = [ret EXCEPT ![p] = Ok(token.header_value, 48)]
    /\ UNCHANGED <<now, token, lockHolder, lockQueue, pending, wakeAt, handlerVars>>
    /\ UNCHANGED histVars

\* lines 46-50: the fast path returns the cached header value
FastHit(p) ==
    /\ pc[p] = "fast"
    /\ Fresh(token)
    /\ pc' = [pc EXCEPT ![p] = "ret"]
    /\ ret' = [ret EXCEPT ![p] = Ok(token.header_value, 48)]
    /\ UNCHANGED <<now, token, lockHolder, lockQueue, pending, wakeAt, handlerVars>>
    /\ UNCHANGED histVars

\* FastMiss with the fast path switched off: every call queues on the lock
FastMiss_always(p) ==
    /\ pc[p] = "fast"
    /\ pc' = [pc EXCEPT ![p] = "lock"]
    /\ lockQueue' = Append(lockQueue, p)
    /\ UNCHANGED <<now, token, lockHolder, ret, pending, wakeAt, handlerVars>>
    /\ UNCHANGED histVars

\* lines 46-52: the fast path misses and the task queues on the refresh lock
FastMiss(p) ==
    /\ pc[p] = "fast"
    /\ ~Fresh(token)
    /\ pc' = [pc EXCEPT ![p] = "lock"]
    /\ lockQueue' = Append(lockQueue, p)
    /\ UNCHANGED <<now, token, lockHolder, ret, pending, wakeAt, handlerVars>>
    /\ UNCHANGED histVars

\* Acquire that does not wait for the lock to be free
Acquire_barging(p) ==
    /\ pc[p] = "lock"
    /\ lockQueue # <<>>
    /\ Head(lockQueue) = p
    /\ lockHolder' = p
    /\ lockQueue' = Tail(lockQueue)
    /\ pc' = [pc EXCEPT ![p] = "recheck"]
    /\ UNCHANGED <<now, token, ret, pending, wakeAt, handlerVars>>
    /\ UNCHANGED histVars

\* line 52: the first waiter gets the free lock
Acquire(p) ==
    /\ pc[p] = "lock"
    /\ lockHolder = "free"
    /\ lockQueue # <<>>
    /\ Head(lockQueue) = p
    /\ lockHolder' = p
    /\ lockQueue' = Tail(lockQueue)
    /\ pc' = [pc EXCEPT ![p] = "recheck"]
    /\ UNCHANGED <<now, token, ret, pending, wakeAt, handlerVars>>
    /\ UNCHANGED histVars

\* lines 54-58: the re-check under the lock finds a fresh token
RecheckHit(p) ==
    /\ pc[p] = "recheck"
    /\ Fresh(token)
    /\ pc' = [pc EXCEPT ![p] = "ret"]
    /\ ret' = [ret EXCEPT ![p] = Ok(token.header_value, 56)]
    /\ Unlock
    /\ UNCHANGED <<now, token, lockQueue, pending, wakeAt, handlerVars>>
    /\ HistReturn(p)

\* RecheckMiss without the re-check: the lock holder refreshes whatever the
\* cache holds
RecheckMiss_unconditional(p) ==
    /\ pc[p] = "recheck"
    /\ pc' = [pc EXCEPT ![p] = "tokreq"]
    /\ UNCHANGED <<now, token, lockHolder, lockQueue, ret, pending, wakeAt, handlerVars>>
    /\ UNCHANGED histVars

\* RecheckMiss that hands the failure it saw while waiting on to its caller
\* instead of sending its own token request
RecheckMiss_propagate(p) ==
    /\ pc[p] = "recheck"
    /\ ~Fresh(token)
    /\ IF sawFail[p]
       THEN /\ pc' = [pc EXCEPT ![p] = "ret"]
            /\ ret' = [ret EXCEPT ![p] = Err(99)]
            /\ Unlock
            /\ HistReturn(p)
            /\ UNCHANGED <<now, token, lockQueue, pending, wakeAt, handlerVars>>
       ELSE /\ pc' = [pc EXCEPT ![p] = "tokreq"]
            /\ UNCHANGED <<now, token, lockHolder, lockQueue, ret, pending, wakeAt, handlerVars>>
            /\ UNCHANGED histVars

\* lines 54-68: the re-check misses and the token request is sent
RecheckMiss(p) ==
    /\ pc[p] = "recheck"
    /\ ~Fresh(token)
    /\ pc' = [pc EXCEPT ![p] = "tokreq"]
    /\ UNCHANGED <<now, token, lockHolder, lockQueue, ret, pending, wakeAt, handlerVars>>
    /\ UNCHANGED histVars

\* TokenSendErr that tries again inside the call: back to the re-check
\* with the lock still held
TokenSendErr_retry(p, r) ==
    /\ pc[p] = "tokreq"
    /\ r.kind = "err"
    /\ pc' = [pc EXCEPT ![p] = "recheck"]
    /\ UNCHANGED <<now, token, lockHolder, lockQueue, ret, pending, wakeAt, handlerVars>>
    /\ UNCHANGED histVars

\* lines 101-104: the token request failed in transport
TokenSendErr(p, r) ==
    /\ pc[p] = "tokreq"
    /\ r.kind = "err"
    /\ pc' = [pc EXCEPT ![p] = "ret"]
    /\ ret' = [ret EXCEPT ![p] = Err(103)]
    /\ Unlock
    /\ UNCHANGED <<now, token, lockQueue, pending, wakeAt, handlerVars>>
    /\ HistFail(p)

\* TokenStatusErr that also drops the cached token
TokenStatusErr_clear(p, r) ==
    /\ pc[p] = "tokreq"
    /\ r.kind = "status"
    /\ pc' = [pc EXCEPT ![p] = "ret"]
    /\ ret' = [ret EXCEPT ![p] = Err(99)]
    /\ token' = None
    /\ Unlock
    /\ UNCHANGED <<now, lockQueue, pending, wakeAt, handlerVars>>
    /\ HistFail(p)

\* lines 93-100: the token endpoint answered with a non-success status
TokenStatusErr(p, r) ==
    /\ pc[p] = "tokreq"
    /\ r.kind = "status"
    /\ pc' = [pc EXCEPT ![p] = "ret"]
    /\ ret' = [ret EXCEPT ![p] = Err(99)]
    /\ Unlock
    /\ UNCHANGED <<now, token, lockQueue, pending, wakeAt, handlerVars>>
    /\ HistFail(p)

\* lines 70-75: success status, but the body is not a TokenResp
TokenJsonErr(p, r) ==
    /\ pc[p] = "tokreq"
    /\ r.kind = "badjson"
    /\ pc' = [pc EXCEPT ![p] = "ret"]
    /\ ret' = [ret EXCEPT ![p] = Err(75)]
    /\ Unlock
    /\ UNCHANGED <<now, token, lockQueue, pending, wakeAt, handlerVars>>
    /\ HistFail(p)

\* Ttl without the floor of 60 s
Ttl_noFloor(expires_in) == expires_in

\* line 76: tr.expires_in.max(60)
Ttl(expires_in) == WMax(expires_in, W(MinTtl))

\* line 77: Instant::now() + Duration::from_secs(ttl.saturating_sub(10)),
\* as the checked addition that the + operator unwraps
ValidUntil(expires_in) ==
    InstantCheckedAdd(W(now), SaturatingSub(Ttl(expires_in), W(Margin)))

\* lines 70-79: a TokenResp arrived and the new CachedToken is built
TokenOk(p, r) ==
    /\ pc[p] = "tokreq"
    /\ r.kind = "ok"
    /\ ValidUntil(r.expires_in).some
    /\ pending' = [pending EXCEPT ![p] =
           CachedToken(FormatBearer(r.access_token), ValidUntil(r.expires_in).v)]
    /\ pc' = [pc EXCEPT ![p] = "write"]
    /\ UNCHANGED <<now, token, lockHolder, lockQueue, ret, wakeAt, handlerVars>>
    /\ UNCHANGED histVars

\* line 77: Instant + Duration overflows and panics; the task unwinds, which
\* drops _g, and ends
TokenOkPanic(p, r) ==
    /\ pc[p] = "tokreq"
    /\ r.kind = "ok"
    /\ ~ValidUntil(r.expires_in).some
    /\ pc' = [pc EXCEPT ![p] = "panic_instant"]
    /\ Unlock
    /\ UNCHANGED <<now, token, lockQueue, ret, pending, wakeAt, handlerVars>>
    /\ HistReturn(p)

\* lines 80-92: the new CachedToken replaces the cache and is returned
Write(p) ==
    /\ pc[p] = "write"
    /\ token' = pending[p]
    /\ pending' = [pending EXCEPT ![p] = None]
    /\ pc' = [pc EXCEPT ![p] = "ret"]
    /\ ret' = [ret EXCEPT ![p] = Ok(pending[p].header_value, 91)]
    /\ Unlock
    /\ UNCHANGED <<now, lockQueue, wakeAt, handlerVars>>
    /\ HistReturn(p)

(***************************************************************************)
(* main: the warm-up loop                                                  *)
(***************************************************************************)
\* line 258: the deadline of sleep(240); every deadline the clock of the
\* model cannot reach is the same deadline
SleepDeadline ==
    IF now + RefreshInterval > MaxTime THEN MaxTime + 1 ELSE now + RefreshInterval

\* lines 257-258: the result is dropped and the task sleeps
BgSleep ==
    /\ pc["bg"] = "ret"
    /\ pc' = [pc EXCEPT !["bg"] = "sleep"]
    /\ ret' = [ret EXCEPT !["bg"] = NoRet]
    /\ wakeAt' = SleepDeadline
    /\ UNCHANGED <<now, token, lockHolder, lockQueue, pending, handlerVars>>
    /\ UNCHANGED histVars

\* lines 256-258: the sleep is over and the loop calls bearer() again
BgWake ==
    /\ pc["bg"] = "sleep"
    /\ now >= wakeAt
    /\ pc' = [pc EXCEPT !["bg"] = "fast"]
    /\ wakeAt' = 0
    /\ UNCHANGED <<now, token, lockHolder, lockQueue, ret, pending, handlerVars>>
    /\ UNCHANGED histVars

(***************************************************************************)
(* The clock                                                               *)
(***************************************************************************)
\* the monotonic clock advances
Tick ==
    /\ now + TickStep <= MaxTime
    /\ now' = now + TickStep
    /\ UNCHANGED <<token, lockHolder, lockQueue, pc, ret, pending, wakeAt, handlerVars>>
    /\ UNCHANGED histVars

(***************************************************************************)
(* proxy                                                                   *)
(***************************************************************************)
\* HReadBodyErr answered as a gateway error
HReadBodyErr_gateway(p) ==
    /\ pc[p] = "idle"
    /\ pc' = [pc EXCEPT ![p] = "responded"]
    /\ resp' = [resp EXCEPT ![p] = Response(502, <<>>, <<>>)]
    /\ UNCHANGED <<now, bearerVars, ret, wakeAt, sent, upresp>>
    /\ HistStart(p)

\* lines 148-151: the inbound body cannot be read: 400
HReadBodyErr(p) ==
    /\ pc[p] = "idle"
    /\ pc' = [pc EXCEPT ![p] = "responded"]
    /\ resp' = [resp EXCEPT ![p] = Response(400, <<>>, <<>>)]
    /\ UNCHANGED <<now, bearerVars, ret, wakeAt, sent, upresp>>
    /\ HistStart(p)

\* lines 148-154: the inbound body is read and bearer() is called
HReadBodyOk(p) ==
    /\ pc[p] = "idle"
    /\ pc' = [pc EXCEPT ![p] = "fast"]
    /\ UNCHANGED <<now, bearerVars, ret, wakeAt, handlerVars>>
    /\ HistStart(p)

\* HBearerErr that blames the caller: 400
HBearerErr_badRequest(p) ==
    /\ pc[p] = "ret"
    /\ ~ret[p].ok
    /\ pc' = [pc EXCEPT ![p] = "responded"]
    /\ ret' = [ret EXCEPT ![p] = NoRet]
    /\ resp' = [resp EXCEPT ![p] = Response(400, <<>>, <<>>)]
    /\ UNCHANGED <<now, bearerVars, wakeAt, sent, upresp>>
    /\ UNCHANGED histVars

\* line 154: bearer() failed: 502
HBearerErr(p) ==
    /\ pc[p] = "ret"
    /\ ~ret[p].ok
    /\ pc' = [pc EXCEPT ![p] = "responded"]
    /\ ret' = [ret EXCEPT ![p] = NoRet]
    /\ resp' = [resp EXCEPT ![p] = Response(502, <<>>, <<>>)]
    /\ UNCHANGED <<now, bearerVars, wakeAt, sent, upresp>>
    /\ UNCHANGED histVars

\* lines 156-174: the outbound headers are built from the request's
\* headers and the request is sent upstream
HSend(p, headers) ==
    /\ pc[p] = "ret"
    /\ ret[p].ok
    /\ HeaderValueValid(ret[p].val)
    /\ pc' = [pc EXCEPT ![p] = "upstream"]
    /\ sent' = [sent EXCEPT ![p] =
           [some |-> TRUE, headers |-> headers, bearer |-> ret[p].val,
            out |-> OutHeaders(headers, ret[p].val)]]
    /\ ret' = [ret EXCEPT ![p] = NoRet]
    /\ UNCHANGED <<now, bearerVars, wakeAt, upresp, resp>>
    /\ UNCHANGED histVars

\* line 166: HeaderValue::from_str(&bearer) is an Err and unwrap panics;
\* the task ends
HSendPanic(p) ==
    /\ pc[p] = "ret"
    /\ ret[p].ok
    /\ ~HeaderValueValid(ret[p].val)
    /\ pc' = [pc EXCEPT ![p] = "panic_header"]
    /\ ret' = [ret EXCEPT ![p] = NoRet]
    /\ UNCHANGED <<now, bearerVars, wakeAt, handlerVars>>
    /\ UNCHANGED histVars

\* line 175: the upstream call failed in transport: 502
HUpstreamErr(p) ==
    /\ pc[p] = "upstream"
    /\ pc' = [pc EXCEPT ![p] = "responded"]
    /\ sent' = [sent EXCEPT ![p] = NoSent]
    /\ resp' = [resp EXCEPT ![p] = Response(502, <<>>, <<>>)]
    /\ UNCHANGED <<now, bearerVars, ret, wakeAt, upresp>>
    /\ UNCHANGED histVars

\* lines 175-186: the upstream answered; status and resp_headers are built
HUpstreamOk(p, r) ==
    /\ pc[p] = "upstream"
    /\ StatusFromU16(r.status).some
    /\ pc' = [pc EXCEPT ![p] = "upbody"]
    /\ sent' = [sent EXCEPT ![p] = NoSent]
    /\ upresp' = [upresp EXCEPT ![p] =
           [some |-> TRUE, read |-> FALSE, status |-> r.status,
            headers |-> r.headers, body |-> r.body]]
    /\ resp' = [resp EXCEPT ![p] =
           Response(StatusFromU16(r.status).v, RespHeaders(r.headers), <<>>)]
    /\ UNCHANGED <<now, bearerVars, ret, wakeAt>>
    /\ UNCHANGED histVars

\* line 194: reading the upstream body failed: 502
HBodyErr(p) ==
    /\ pc[p] = "upbody"
    /\ pc' = [pc EXCEPT ![p] = "responded"]
    /\ upresp' = [upresp EXCEPT ![p] = NoUp]
    /\ resp' = [resp EXCEPT ![p] = Response(502, <<>>, <<>>)]
    /\ UNCHANGED <<now, bearerVars, ret, wakeAt, sent>>
    /\ UNCHANGED histVars

\* lines 188-215: the upstream body is read, previewed and returned with
\* status and resp_headers
HBodyOk(p, dump_n) ==
    /\ pc[p] = "upbody"
    /\ pc' = [pc EXCEPT ![p] = "responded"]
    /\ upresp' = [upresp EXCEPT ![p].read = TRUE]
    /\ resp' = [resp EXCEPT ![p].body = ReturnedBody(upresp[p].body, dump_n)]
    /\ UNCHANGED <<now, bearerVars, ret, wakeAt, sent>>
    /\ UNCHANGED histVars

\* the response has gone to the caller; the handler takes the next request
HDone(p) ==
    /\ pc[p] = "responded"
    /\ pc' = [pc EXCEPT ![p] = "idle"]
    /\ upresp' = [upresp EXCEPT ![p] = NoUp]
    /\ resp' = [resp EXCEPT ![p] = NoResp]
    /\ UNCHANGED <<now, bearerVars, ret, wakeAt, sent>>
    /\ UNCHANGED histVars

\* the connection of a panicked handler is closed; the next request is
\* served by a new task
HReap(p) ==
    /\ pc[p] \in {"panic_instant", "panic_header"}
    /\ pc' = [pc EXCEPT ![p] = "idle"]
    /\ UNCHANGED <<now, bearerVars, ret, wakeAt, handlerVars>>
    /\ UNCHANGED histVars

(***************************************************************************)
(* The program                                                             *)
(***************************************************************************)
Next ==
    \/ \E p \in Procs : FastHit(p)
    \/ \E p \in Procs : FastMiss(p)
    \/ \E p \in Procs : Acquire(p)
    \/ \E p \in Procs : RecheckHit(p)
    \/ \E p \in Procs : RecheckMiss(p)
    \/ \E p \in Procs, r \in TokenResponses : TokenSendErr(p, r)
    \/ \E p \in Procs, r \in TokenResponses : TokenStatusErr(p, r)
    \/ \E p \in Procs, r \in TokenResponses : TokenJsonErr(p, r)
    \/ \E p \in Procs, r \in TokenResponses : TokenOk(p, r)
    \/ \E p \in Procs, r \in TokenResponses : TokenOkPanic(p, r)
    \/ \E p \in Procs : Write(p)
    \/ BgSleep
    \/ BgWake
    \/ \E p \in Handlers : HReadBodyErr(p)
    \/ \E p \in Handlers : HReadBodyOk(p)
    \/ \E p \in Handlers : HBearerErr(p)
    \/ \E p \in Handlers, h \in ReqHeaderPool : HSend(p, h)
    \/ \E p \in Handlers : HSendPanic(p)
    \/ \E p \in Handlers : HUpstreamErr(p)
    \/ \E p \in Handlers, r \in UpResponses : HUpstreamOk(p, r)
    \/ \E p \in Handlers : HBodyErr(p)
    \/ \E p \in Handlers, n \in DumpNs : HBodyOk(p, n)
    \/ \E p \in Handlers : HDone(p)
    \/ \E p \in Handlers : HReap(p)
    \/ Tick

Spec == Init /\ [][Next]_vars

(***************************************************************************)
(* The program under a fair scheduler                                      *)
(***************************************************************************)
\* one step of task p inside bearer(): a poll of its future that gets past
\* line 46, 52, 54, 68-75 or 80
BearerStep(p) ==
    \/ FastHit(p)
    \/ FastMiss(p)
    \/ Acquire(p)
    \/ RecheckHit(p)
    \/ RecheckMiss(p)
    \/ \E r \in TokenResponses :
           \/ TokenSendErr(p, r)
           \/ TokenStatusErr(p, r)
           \/ TokenJsonErr(p, r)
           \/ TokenOk(p, r)
           \/ TokenOkPanic(p, r)
    \/ Write(p)

\* the tokio runtime polls every task that can go on, every token request
\* is answered in the end, and refresh_lock (a tokio Mutex) serves its
\* waiters first in, first out, which the queue of Acquire already does
FairSpec == Spec /\ \A p \in Procs : WF_vars(BearerStep(p))

(***************************************************************************)
(* proxy dropped by the server: the caller has gone away                   *)
(***************************************************************************)
\* the await points of proxy and of the bearer() call inside it: reading
\* the inbound body (148), token.read() (46, 54), refresh_lock.lock() (52),
\* the token request (68-75), token.write() (80), the upstream call (175)
\* and reading the upstream body (194)
SuspensionPoints ==
    {"idle", "fast", "lock", "recheck", "tokreq", "write", "upstream", "upbody"}

\* Cancel that leaks the guard _g: the refresh lock stays with the dropped
\* task
Cancel_keepLock(p) ==
    /\ pc[p] \in SuspensionPoints
    /\ pc' = [pc EXCEPT ![p] = "idle"]
    /\ lockQueue' = SelectSeq(lockQueue, LAMBDA q : q # p)
    /\ pending' = [pending EXCEPT ![p] = None]
    /\ sent' = [sent EXCEPT ![p] = NoSent]
    /\ upresp' = [upresp EXCEPT ![p] = NoUp]
    /\ resp' = [resp EXCEPT ![p] = NoResp]
    /\ sawFail' = [sawFail EXCEPT ![p] = FALSE]
    /\ aborted' = [aborted EXCEPT ![p] = pc[p]]
    /\ UNCHANGED <<now, token, lockHolder, ret, wakeAt>>

\* the future of proxy is dropped at the await point it is suspended at:
\* its locals are dropped, so a waiter leaves the queue of the lock, the
\* guard _g (if the task holds it) frees the lock, the CachedToken not yet
\* stored and the requests in flight are abandoned
Cancel(p) ==
    /\ pc[p] \in SuspensionPoints
    /\ pc' = [pc EXCEPT ![p] = "idle"]
    /\ lockHolder' = IF lockHolder = p THEN "free" ELSE lockHolder
    /\ lockQueue' = SelectSeq(lockQueue, LAMBDA q : q # p)
    /\ pending' = [pending EXCEPT ![p] = None]
    /\ sent' = [sent EXCEPT ![p] = NoSent]
    /\ upresp' = [upresp EXCEPT ![p] = NoUp]
    /\ resp' = [resp EXCEPT ![p] = NoResp]
    /\ sawFail' = [sawFail EXCEPT ![p] = FALSE]
    /\ aborted' = [aborted EXCEPT ![p] = pc[p]]
    /\ UNCHANGED <<now, token, ret, wakeAt>>

\* the program with callers that go away
NextCancel ==
    \/ Next
    \/ \E p \in Handlers : Cancel(p)

SpecCancel == Init /\ [][NextCancel]_vars

(***************************************************************************)
(* Properties                                                              *)
(***************************************************************************)
\* now + 20 s < valid_until, written out on its own
LeewayLeft(t) ==
    /\ t.some
    /\ WLess(WAdd(W(now), W(20)).v, t.valid_until)

\* this step sends no token request: no task enters the token request
NoTokenRequest == \A q \in Procs : pc'[q] = "tokreq" => pc[q] = "tokreq"

\* task p returns from bearer() in this step
Returns(p) == pc[p] # "ret" /\ pc'[p] = "ret"

\* the values a header map holds for a name, in order
RECURSIVE ValuesOf(_, _)
ValuesOf(m, name) ==
    IF m = <<>> THEN <<>>
    ELSE IF Head(m)[1] = name
         THEN <<Head(m)[2]>> \o ValuesOf(Tail(m), name)
         ELSE ValuesOf(Tail(m), name)

\* the names of a header map
NamesOf(m) == {m[i][1] : i \in 1..Len(m)}

\* "authorization"
Name_authorization == <<97,117,116,104,111,114,105,122,97,116,105,111,110>>

\* "host"
Name_host == <<104,111,115,116>>

\* connection, keep-alive, proxy-authenticate, proxy-authorization, te,
\* trailer, transfer-encoding, upgrade
HopByHopNames ==
    { <<99,111,110,110,101,99,116,105,111,110>>,
      <<107,101,101,112,45,97,108,105,118,101>>,
      <<112,114,111,120,121,45,97,117,116,104,101,110,116,105,99,97,116,101>>,
      <<112,114,111,120,121,45,97,117,116,104,111,114,105,122,97,116,105,111,110>>,
      <<116,101>>,
      <<116,114,97,105,108,101,114>>,
      <<116,114,97,110,115,102,101,114,45,101,110,99,111,100,105,110,103>>,
      <<117,112,103,114,97,100,101>> }

C3_CacheWrite ==
    [][ /\ token' # token
           => \E p \in Procs :
                  /\ pc[p] = "write" /\ pc'[p] = "ret"
                  /\ ret'[p].ok /\ ret'[p].line = 91
                  /\ pending[p].some
                  /\ token' = pending[p]
        /\ \A p \in Procs :
              (pc[p] = "tokreq" /\ pc'[p] = "ret") => (~ret'[p].ok /\ token' = token) ]_vars

\* C3 witness: a refresh has failed and the token cached before is still
\* in the cache.
C3_Witness ==
    \E p \in Procs :
        pc[p] = "ret" /\ ~ret[p].ok /\ ret[p].line \in {75, 99, 103} /\ token.some

\* C4 as stated: while now < valid_until of the cached token, a bearer()
\* call whose refresh attempt fails still returns the cached header_value.
C4_Claim ==
    [][ \A p \in Procs :
          (pc[p] = "tokreq" /\ pc'[p] = "ret"
             /\ token.some /\ WLess(W(now), token.valid_until))
              => (ret'[p].ok /\ ret'[p].val = token.header_value) ]_vars

C6_Exposure ==
    /\ [][ \A p \in Procs :
             (Returns(p) /\ ret'[p].ok)
                 => \/ /\ pc[p] \in {"fast", "recheck"}
                       /\ LeewayLeft(token)
                       /\ ret'[p].val = token.header_value
                    \/ /\ pc[p] = "write"
                       /\ ret'[p].val = pending[p].header_value
                       /\ token' = pending[p] ]_vars
    /\ [](token.some =>
             \E a \in AccessTokens :
                 token.header_value = <<66,101,97,114,101,114,32>> \o a)

\* C6 witness: after time has passed a cached token that is still valid
\* has been returned from the fast path.
C6_Witness ==
    \E p \in Procs :
        /\ now > 0
        /\ pc[p] = "ret" /\ ret[p].ok /\ ret[p].line = 48
        /\ LeewayLeft(token) /\ ret[p].val = token.header_value

\* C7 as stated: no expires_in value makes the computation of valid_until
\* overflow or abort; every TokenResp ends in a stored token and Ok.
C7_Claim == \A p \in Procs : pc[p] # "panic_instant"

\* C8: the header map sent upstream holds, for the name authorization,
\* exactly the bearer value of this request; for host and the hop-by-hop
\* names nothing; for every other name exactly the inbound values.
C8_OutboundHeaders ==
    \A p \in Handlers :
        sent[p].some =>
            \A n \in NamesOf(sent[p].headers) \cup NamesOf(sent[p].out)
                     \cup {Name_authorization} :
                ValuesOf(sent[p].out, n) =
                    IF n = Name_authorization THEN <<sent[p].bearer>>
                    ELSE IF ToAsciiLowercase(n) \in HopByHopNames \cup {Name_host}
                         THEN <<>>
                         ELSE ValuesOf(sent[p].headers, n)

\* C8 witness: a request with caller-supplied authorization and host
\* headers and an end-to-end header has been sent upstream.
C8_Witness ==
    \E p \in Handlers :
        /\ pc[p] = "upstream" /\ sent[p].some
        /\ ValuesOf(sent[p].headers, Name_authorization) # <<>>
        /\ ValuesOf(sent[p].headers, Name_host) # <<>>
        /\ \E n \in NamesOf(sent[p].out) : n # Name_authorization

\* C9: the header map returned to the caller holds nothing for the
\* hop-by-hop names and, for every other name (authorization and host
\* included), exactly the values of the upstream response.
C9_ResponseHeaders ==
    \A p \in Handlers :
        upresp[p].some =>
            \A n \in NamesOf(upresp[p].headers) \cup NamesOf(resp[p].headers) :
                ValuesOf(resp[p].headers, n) =
                    IF ToAsciiLowercase(n) \in HopByHopNames
                    THEN <<>>
                    ELSE ValuesOf(upresp[p].headers, n)

\* C9 witness: an upstream response with hop-by-hop, authorization and
\* host headers has been relayed, authorization and host among the
\* returned headers.
C9_Witness ==
    \E p \in Handlers :
        /\ pc[p] = "responded" /\ upresp[p].read
        /\ \E n \in NamesOf(upresp[p].headers) : n \in HopByHopNames
        /\ Name_authorization \in NamesOf(resp[p].headers)
        /\ Name_host \in NamesOf(resp[p].headers)

\* C10: once the upstream body is read, the response to the caller has the
\* status and the body bytes of the upstream response, whatever the status
\* and the preview limit.
C10_Relay ==
    \A p \in Handlers :
        (pc[p] = "responded" /\ upresp[p].read)
            => /\ resp[p].status = upresp[p].status
               /\ resp[p].body = upresp[p].body

\* C10 witness: a 503 with a two-byte body has been relayed.
C10_Witness ==
    \E p \in Handlers :
        /\ pc[p] = "responded" /\ upresp[p].read
        /\ upresp[p].status = 503 /\ Len(upresp[p].body) = 2
        /\ resp[p].status = 503

\* C11: a handler whose bearer() call returned an error (token status,
\* transport or decode error) answers 502 and sends nothing upstream; only
\* a handler holding an Ok bearer sends an upstream request; and an
\* upstream call that fails in transport is answered with 502.
C11_BadGateway ==
    [][ \A p \in Handlers :
          /\ (pc[p] = "ret" /\ ~ret[p].ok /\ pc'[p] # "ret")
                 => /\ ret[p].line \in {75, 99, 103}
                    /\ pc'[p] = "responded"
                    /\ resp'[p].status = 502
                    /\ ~sent'[p].some /\ ~upresp'[p].some
          /\ (pc[p] # "upstream" /\ pc'[p] = "upstream")
                 => (pc[p] = "ret" /\ ret[p].ok)
          /\ (pc[p] = "upstream" /\ pc'[p] = "responded")
                 => (resp'[p].status = 502 /\ ~upresp'[p].some) ]_vars

\* C11 witness: one handler has answered 502 with nothing sent upstream
\* and nothing received from it, while the other's upstream call is in
\* flight.
C11_Witness ==
    \E p \in Handlers, q \in Handlers :
        /\ pc[p] = "responded" /\ resp[p].status = 502
        /\ ~sent[p].some /\ ~upresp[p].some
        /\ pc[q] = "upstream"

\* C12: a handler whose inbound body cannot be read answers 400 without
\* having entered bearer(): that step sends no token request, leaves the
\* cache, the refresh lock and its queue alone, and sends nothing upstream;
\* the handler then only finishes.  bearer() is entered only from the
\* completed read of the body.
C12_BadRequest ==
    [][ \A p \in Handlers :
          /\ (pc[p] = "idle" /\ pc'[p] # "idle")
                 => \/ pc'[p] = "fast"
                    \/ /\ pc'[p] = "responded"
                       /\ resp'[p].status = 400
                       /\ NoTokenRequest
                       /\ UNCHANGED <<token, lockHolder, lockQueue>>
                       /\ ~sent'[p].some /\ ~upresp'[p].some
          /\ (pc[p] = "responded" /\ pc'[p] # "responded") => pc'[p] = "idle"
          /\ (pc[p] # "fast" /\ pc'[p] = "fast") => pc[p] = "idle"
          /\ (pc[p] # "lock" /\ pc'[p] = "lock") => pc[p] = "fast" ]_vars

\* C12 witness: a handler has answered 400 while the cache is empty and
\* another task is in its token request.
C12_Witness ==
    \E p \in Handlers, q \in Procs :
        /\ pc[p] = "responded" /\ resp[p].status = 400
        /\ ~token.some /\ pc[q] = "tokreq"

\* how far a task is in its bearer() call and, after it, in its request;
\* between calls and requests the position is 0
Position(at) ==
    CASE at = "fast" -> 1
      [] at = "lock" -> 2
      [] at = "recheck" -> 3
      [] at = "tokreq" -> 4
      [] at = "write" -> 5
      [] at = "ret" -> 6
      [] at = "upstream" -> 7
      [] at = "upbody" -> 8
      [] at = "responded" -> 9
      [] at \in {"panic_instant", "panic_header"} -> 10
      [] OTHER -> 0

\* C13: inside one bearer() call and one proxied request a task only moves
\* forward, so it passes the token request at most once (after the wait on
\* the lock) and the upstream request at most once; a bearer() call whose
\* token request ends in an error returns that error to its caller at
\* once, and the handler answers with it.
C13_NoRetry ==
    [][ \A p \in Procs :
          /\ pc'[p] # pc[p]
                 => \/ Position(pc'[p]) > Position(pc[p])
                    \/ Position(pc'[p]) = 0
          /\ (pc[p] # "tokreq" /\ pc'[p] = "tokreq") => pc[p] = "recheck"
          /\ (pc[p] = "tokreq" /\ pc'[p] \notin {"tokreq", "write", "panic_instant"})
                 => /\ pc'[p] = "ret"
                    /\ ~ret'[p].ok /\ ret'[p].line \in {75, 99, 103}
          /\ (pc[p] = "ret" /\ ~ret[p].ok /\ pc'[p] # "ret")
                 => pc'[p] \in {"responded", "sleep"}
          /\ (pc[p] # "upstream" /\ pc'[p] = "upstream") => pc[p] = "ret"
          /\ (pc[p] \in {"upstream", "upbody"} /\ pc'[p] # pc[p])
                 => pc'[p] \in {"upbody", "responded"} ]_vars

\* C13 witness: a handler's own token request has failed in transport and
\* the error is back at the handler, the lock free again; the other
\* handler's single upstream request has been answered.
C13_Witness ==
    \E p \in Handlers, q \in Handlers :
        /\ pc[p] = "ret" /\ ret[p] = Err(103)
        /\ lockHolder = "free"
        /\ pc[q] = "upbody"

\* the tasks whose token request is in flight
InTokenRequest == {p \in Procs : pc[p] = "tokreq"}

\* C15: at most one token request is in flight over all handlers and the
\* warm-up loop; the task it belongs to holds the refresh lock; a task
\* holds the lock exactly between acquiring it and returning; and every
\* other task that missed the fast path sits in the queue of the lock,
\* once, with no request of its own.
C15_OneInFlight ==
    /\ Cardinality(InTokenRequest) <= 1
    /\ \A p \in Procs :
          /\ pc[p] = "tokreq" => lockHolder = p
          /\ lockHolder = p <=> pc[p] \in {"recheck", "tokreq", "write"}
          /\ pc[p] = "lock" <=> (\E i \in 1..Len(lockQueue) : lockQueue[i] = p)
    /\ \A i \in 1..Len(lockQueue), j \in 1..Len(lockQueue) :
          lockQueue[i] = lockQueue[j] => i = j

\* C15 witness: the warm-up loop's token request is in flight while both
\* handlers wait on the lock.
C15_Witness ==
    /\ pc["bg"] = "tokreq" /\ lockHolder = "bg"
    /\ \A p \in Handlers : pc[p] = "lock"
    /\ Len(lockQueue) = 2

\* C16: a bearer() call that finds now + leeway < valid_until on the fast
\* path returns in that step without entering the queue of the refresh
\* lock or taking the lock, and that step can be taken whoever holds the
\* lock and whoever waits for it.
C16_NoSerialization ==
    /\ [][ \A p \in Procs :
             (pc[p] = "fast" /\ LeewayLeft(token) /\ pc'[p] # "fast")
                 => /\ pc'[p] = "ret" /\ ret'[p].ok
                    /\ lockHolder' = lockHolder /\ lockHolder # p
                    /\ lockQueue' = lockQueue
                    /\ \A i \in 1..Len(lockQueue) : lockQueue[i] # p ]_vars
    /\ [](\A p \in Procs :
             (pc[p] = "fast" /\ LeewayLeft(token)) => ENABLED FastHit(p))

\* C16 witness: both handlers have returned from the fast path while the
\* warm-up loop holds the refresh lock.
C16_Witness ==
    /\ lockHolder = "bg"
    /\ \A p \in Handlers : pc[p] = "ret" /\ ret[p].ok /\ ret[p].line = 48

\* C14 as stated: a warm-up bearer() call that fails leaves the cache as it
\* was and the refresh lock free, the warm-up loop never ends and calls
\* bearer() again once its sleep is over, and a handler whose own token
\* request is answered with a token stores it and gets its bearer value.
C14_Claim ==
    [][ /\ (pc["bg"] = "tokreq" /\ pc'["bg"] = "ret")
               => (~ret'["bg"].ok /\ token' = token /\ lockHolder' = "free")
        /\ pc'["bg"] \in {"fast", "lock", "recheck", "tokreq", "write", "ret", "sleep"}
        /\ (pc["bg"] = "ret" /\ pc'["bg"] # "ret")
               => (pc'["bg"] = "sleep" /\ wakeAt' > now)
        /\ (pc["bg"] = "sleep" /\ pc'["bg"] # "sleep")
               => (pc'["bg"] = "fast" /\ now >= wakeAt)
        /\ \A p \in Handlers :
              /\ (pc[p] = "tokreq" /\ pc'[p] # "tokreq")
                     => \/ pc'[p] = "ret" /\ ~ret'[p].ok
                        \/ pc'[p] = "write"
              /\ (pc[p] = "write" /\ pc'[p] # "write")
                     => /\ pc'[p] = "ret" /\ ret'[p].ok
                        /\ token'.some /\ token'.header_value = ret'[p].val ]_vars

\* C19 as stated: the cache never returns to empty, every replacement
\* stores a strictly later valid_until, and the token just stored satisfies
\* now + leeway < valid_until at the moment it is stored.
C19_Original ==
    [][ /\ token.some => token'.some
        /\ (token' # token /\ token.some)
               => WLess(token.valid_until, token'.valid_until)
        /\ token' # token
               => WLess(WAdd(W(now'), W(20)).v, token'.valid_until) ]_vars

\* C19, amended: the cache never returns to empty; every replacement
\* stores a strictly later valid_until; a token request is sent only when
\* the cached token fails now + leeway < valid_until; and the new token has
\* at least 50 s to live, so it satisfies that test, at the moment its
\* valid_until is computed (line 77), which is the token that the write
\* of lines 80-83 stores however much later it completes.
C19_Monotone ==
    [][ /\ token.some => token'.some
        /\ (token' # token /\ token.some)
               => WLess(token.valid_until, token'.valid_until)
        /\ token' # token
               => \E p \in Procs : pc[p] = "write" /\ token' = pending[p]
        /\ \A p \in Procs :
              /\ (pc[p] # "tokreq" /\ pc'[p] = "tokreq") => ~LeewayLeft(token)
              /\ (pc[p] # "write" /\ pc'[p] = "write")
                     => /\ pending'[p].some
                        /\ WLess(WAdd(W(now), W(49)).v, pending'[p].valid_until)
                        /\ WLess(WAdd(W(now), W(20)).v, pending'[p].valid_until) ]_vars

\* C19 witness: one task still has the header_value it read from the
\* cache, and the cache now holds another token, which a second task's
\* refresh has just stored.
C19_Witness ==
    \E p \in Procs, q \in Procs :
        /\ p # q
        /\ pc[q] = "ret" /\ ret[q].ok /\ ret[q].line \in {48, 56}
        /\ pc[p] = "ret" /\ ret[p].ok /\ ret[p].line = 91
        /\ token.some /\ token.header_value = ret[p].val
        /\ ret[q].val # ret[p].val

\* C20 as stated: a handler whose bearer() call returned Ok goes on to the
\* upstream call or to an error response, its task never ends in between;
\* and every header_value the cache stores is accepted as the value of
\* the authorization header.
C20_Claim ==
    /\ [][ \A p \in Handlers :
             (pc[p] = "ret" /\ ret[p].ok /\ pc'[p] # "ret")
                 => pc'[p] \in {"upstream", "responded"} ]_vars
    /\ [](token.some => HeaderValueValid(token.header_value))

\* handler p is dropped in this step
Dropped(p) == aborted'[p] # "no" /\ aborted'[p] # aborted[p]

\* C18: dropping a handler at any of its suspension points leaves the
\* cache as it is, takes the handler out of the queue of the refresh lock,
\* frees the lock if the handler held it and moves no other task; the
\* cache changes only by the store of a whole CachedToken by a task that
\* goes on to return; the lock is held only by a task between acquiring
\* it and returning, the queue holds only tasks that wait, and the first
\* of them can take the lock whenever it is free.
C18_Abort ==
    /\ [][ \A p \in Handlers :
             Dropped(p)
                 => /\ aborted'[p] = pc[p] /\ pc'[p] = "idle"
                    /\ token' = token
                    /\ lockHolder' = IF lockHolder = p THEN "free" ELSE lockHolder
                    /\ \A i \in 1..Len(lockQueue') : lockQueue'[i] # p
                    /\ \A q \in Procs \ {p} : pc'[q] = pc[q] /\ ret'[q] = ret[q] ]_vars
    /\ [][ token' # token
             => \E q \in Procs :
                    /\ pc[q] = "write" /\ pc'[q] = "ret"
                    /\ pending[q].some /\ token' = pending[q] ]_vars
    /\ [](\A p \in Procs :
             /\ lockHolder = p <=> pc[p] \in {"recheck", "tokreq", "write"}
             /\ pc[p] = "lock" <=> (\E i \in 1..Len(lockQueue) : lockQueue[i] = p))
    /\ []((lockHolder = "free" /\ lockQueue # <<>>)
             => ENABLED Acquire(Head(lockQueue)))
    /\ [](token.some
             => /\ \E a \in AccessTokens :
                      token.header_value = <<66,101,97,114,101,114,32>> \o a
                /\ ~WLess(token.valid_until, W(50)))

\* C18 witness: one handler was dropped during its token request, holding
\* the refresh lock, and has not come back; the other handler was dropped
\* while it waited on the lock; the warm-up loop has since taken the lock
\* and stored a token.
C18_Witness ==
    /\ aborted["h1"] = "tokreq" /\ pc["h1"] = "idle"
    /\ aborted["h2"] = "lock" /\ pc["h2"] = "idle"
    /\ pc["bg"] = "ret" /\ ret["bg"].ok /\ ret["bg"].line = 91
    /\ token.some /\ lockHolder = "free" /\ now = 0

\* the positions of a task inside bearer()
InBearer == {"fast", "lock", "recheck", "tokreq", "write"}

\* C17 as stated: the refresh lock is held exactly while a call is between
\* acquiring it and returning, so it is free whenever no call is there; a
\* bearer() call ends only by returning Ok or Err; and, every token
\* request being answered and the lock being fair, every bearer() call
\* returns in the end.
C17_Claim ==
    /\ [](\A p \in Procs : lockHolder = p <=> pc[p] \in {"recheck", "tokreq", "write"})
    /\ []((\A p \in Procs : pc[p] \notin {"recheck", "tokreq", "write"})
             => lockHolder = "free")
    /\ [][ \A p \in Procs :
             (pc[p] \in InBearer /\ pc'[p] \notin InBearer)
                 => (pc'[p] = "ret" /\ ret'[p] # NoRet) ]_vars
    /\ \A p \in Procs : (pc[p] \in InBearer) ~> (pc[p] = "ret")

====
